---- MODULE Spec2Model ----
(***************************************************************************)
(* Model of the interval core of SVMmycointrons:                           *)
(*   - find_overlaps             (src/pruning/prune_tools.py)              *)
(*   - prune_non_overlap_introns (src/pruning/prune_tools.py)              *)
(*   - intraexonic_cuts_count    (src/intragen/cutting_diagnostics.py)     *)
(* Each function is a state machine over its local variables; a Python     *)
(* exception is a terminal value of pc named after the exception.          *)
(***************************************************************************)
EXTENDS Integers, Sequences, FiniteSets, TLC

VARIABLES
    pc,                     \* position of the running function
    \* ---- find_overlaps
    intron_coords,          \* the dict argument, as its items in iteration order
    sc,                     \* number of scaffolds the outer loop has taken
    i,                      \* number of positions the inner loop has completed
    last_start, last_end,
    positions_non_overlap, positions_overlap,
    correction,
    overlaps_dict,          \* scaffold -> <<non_overlap, overlap>>
    \* ---- prune_non_overlap_introns
    scaffold_dna,           \* the string argument, as the sequence of its characters
    non_overlap_introns,    \* the list argument
    taken,                  \* number of introns the loop has taken
    exon_begin,
    exon_coord_mapping,
    purged_scaffold,
    \* ---- intraexonic_cuts_count
    exon_grouped,           \* GroupBy argument: scaffold -> its exon positions
    cuts_grouped,           \* GroupBy argument, as its groups in iteration order
    g,                      \* number of groups the loop has taken
    total_intraexon_cuts,
    log                     \* the records handed to logging, in order

cvars == <<intron_coords, sc, i, last_start, last_end,
           positions_non_overlap, positions_overlap, correction, overlaps_dict>>

pvars == <<scaffold_dna, non_overlap_introns, taken, exon_begin,
           exon_coord_mapping, purged_scaffold>>

kvars == <<exon_grouped, cuts_grouped, g, total_intraexon_cuts, log>>

vars == <<pc, cvars, pvars, kvars>>

----------------------------------------------------------------------------
(* Bounds of the explored inputs *)

MaxGenCoord == 3        \* coordinates of arbitrary (unsorted, malformed) lists: 0..MaxGenCoord
MaxIntervals == 3       \* length of arbitrary lists
MaxChainCoord == 4      \* coordinates of sorted well-formed lists: 1..MaxChainCoord
MaxChain == 5           \* length of sorted well-formed lists
MaxBatchCoord == 2      \* coordinates of the lists of a two-scaffold dict: 1..MaxBatchCoord
MaxLen == 4             \* length of the short scaffolds: 0..MaxLen
MaxIntrons == 3         \* length of the intron lists given to the pruner
MaxPos == 2             \* coordinates of exons and cuts: 1..MaxPos
MaxGroup == 2           \* rows of the groups of scaffold "sA"

ScaffoldNames == {"sA", "sB"}

SeqsUpTo(S, n) == UNION {[1..k -> S] : k \in 0..n}

----------------------------------------------------------------------------
(* Python list helpers *)

InList(x, s) == \E k \in 1..Len(s) : s[k] = x

FirstIndex(x, s) == CHOOSE k \in 1..Len(s) : s[k] = x /\ \A j \in 1..(k-1) : s[j] # x

\* list.remove(x): drops the first occurrence only
ListRemove(s, x) ==
    LET k == FirstIndex(x, s)
    IN  [j \in 1..(Len(s)-1) |-> IF j < k THEN s[j] ELSE s[j+1]]

----------------------------------------------------------------------------
(* find_overlaps *)

Scaffold == intron_coords[sc][1]
Positions == intron_coords[sc][2]

\* a scan that lets an interval start on the last position of its predecessor
IsOverlapStrict(start, lastEnd) == start < lastEnd

\* line 61
IsOverlap(start, lastEnd) == start <= lastEnd

\* lines 64-65: the predecessor leaves non_overlap when it is there
NonOverlapAfterOverlap(no, ls, le) ==
    IF InList(<<ls, le>>, no) THEN ListRemove(no, <<ls, le>>) ELSE no

\* a scan that forgets the else branch of lines 66-67
CorrectionNeverGrows(no, ls, le, corr) == corr

\* lines 64-67: otherwise the correction grows
CorrectionAfterOverlap(no, ls, le, corr) ==
    IF InList(<<ls, le>>, no) THEN corr ELSE corr + 1

\* line 69: the division raises when its denominator is 0
RatioRaises(ls, le) == le - ls = 0

\* line 77
AssertHolds(n, no, ov, corr) == n = Len(no) + 2 * Len(ov) - corr

\* line 54 (next item) and lines 55-57
NextScaffold ==
    /\ pc = "for_scaffold"
    /\ sc < Len(intron_coords)
    /\ sc' = sc + 1
    /\ i' = 0
    /\ last_end' = 0
    /\ last_start' = 0
    /\ positions_non_overlap' = <<>>
    /\ positions_overlap' = <<>>
    /\ correction' = 0
    /\ pc' = "scan"
    /\ UNCHANGED <<intron_coords, overlaps_dict, pvars, kvars>>

\* lines 59-70, 74-75: one iteration taking the overlap branch
OverlapStep ==
    /\ pc = "scan"
    /\ i < Len(Positions)
    /\ LET start == Positions[i+1][1]
           end   == Positions[i+1][2]
       IN  /\ IsOverlap(start, last_end)
           /\ positions_overlap' =
                 Append(positions_overlap, <<last_start, last_end, start, end>>)
           /\ positions_non_overlap' =
                 NonOverlapAfterOverlap(positions_non_overlap, last_start, last_end)
           /\ correction' =
                 CorrectionAfterOverlap(positions_non_overlap, last_start, last_end, correction)
           /\ IF RatioRaises(last_start, last_end)
              THEN /\ pc' = "ZeroDivisionError"
                   /\ UNCHANGED <<i, last_start, last_end>>
              ELSE /\ pc' = "scan"
                   /\ i' = i + 1
                   /\ last_end' = end
                   /\ last_start' = start
    /\ UNCHANGED <<intron_coords, sc, overlaps_dict, pvars, kvars>>

\* lines 59-61, 71-75: one iteration taking the else branch
NonOverlapStep ==
    /\ pc = "scan"
    /\ i < Len(Positions)
    /\ LET start == Positions[i+1][1]
           end   == Positions[i+1][2]
       IN  /\ ~IsOverlap(start, last_end)
           /\ positions_non_overlap' = Append(positions_non_overlap, <<start, end>>)
           /\ last_end' = end
           /\ last_start' = start
    /\ i' = i + 1
    /\ UNCHANGED <<pc, intron_coords, sc, positions_overlap, correction, overlaps_dict, pvars, kvars>>

\* lines 77-78: the scan of one scaffold is over
EndScan ==
    /\ pc = "scan"
    /\ i = Len(Positions)
    /\ IF AssertHolds(Len(Positions), positions_non_overlap, positions_overlap, correction)
       THEN /\ overlaps_dict' =
                  [s \in DOMAIN overlaps_dict \cup {Scaffold} |->
                      IF s = Scaffold
                      THEN <<positions_non_overlap, positions_overlap>>
                      ELSE overlaps_dict[s]]
            /\ pc' = "for_scaffold"
       ELSE /\ pc' = "AssertionError"
            /\ UNCHANGED overlaps_dict
    /\ UNCHANGED <<intron_coords, sc, i, last_start, last_end,
                   positions_non_overlap, positions_overlap, correction, pvars, kvars>>

\* line 80
ReturnOverlaps ==
    /\ pc = "for_scaffold"
    /\ sc = Len(intron_coords)
    /\ pc' = "returned"
    /\ UNCHANGED <<cvars, pvars, kvars>>

GenIntervals == (0..MaxGenCoord) \X (0..MaxGenCoord)
ChainIntervals == {iv \in (1..MaxChainCoord) \X (1..MaxChainCoord) : iv[1] <= iv[2]}
BatchIntervals == {iv \in (1..MaxBatchCoord) \X (1..MaxBatchCoord) : iv[1] <= iv[2]}

SortedByStart(p) == \A k \in 1..(Len(p)-1) : p[k][1] <= p[k+1][1]

\* one scaffold with an arbitrary list: unsorted, repeated or malformed intervals
GenInput(d) ==
    \E k \in 0..MaxIntervals : \E p \in [1..k -> GenIntervals] : d = <<<<"sA", p>>>>

\* one scaffold with a well-formed list sorted ascending by start
SortedInput(d) ==
    \E k \in 0..MaxChain : \E p \in [1..k -> ChainIntervals] :
        SortedByStart(p) /\ d = <<<<"sA", p>>>>

\* the three-way chain (1,10),(5,15),(12,20)
ExampleChain == <<<<1, 10>>, <<5, 15>>, <<12, 20>>>>

\* a long interval, one inside it, and a third inside it past the second
ExampleEnclosed == <<<<1, 100>>, <<5, 10>>, <<20, 30>>>>

\* two scaffolds, in either order
BatchInput(d) ==
    \E a \in ScaffoldNames : \E b \in ScaffoldNames \ {a} :
        \E p \in SeqsUpTo(BatchIntervals, 2) : \E q \in SeqsUpTo(BatchIntervals, 2) :
            d = <<<<a, p>>, <<b, q>>>>

\* the variables of find_overlaps before its first statement
ClassifyStart ==
    /\ sc = 0
    /\ i = 0
    /\ last_start = 0
    /\ last_end = 0
    /\ positions_non_overlap = <<>>
    /\ positions_overlap = <<>>
    /\ correction = 0
    /\ overlaps_dict = <<>>

\* the variables of prune_non_overlap_introns after lines 91-93
PruneStart ==
    /\ taken = 0
    /\ exon_begin = 0
    /\ exon_coord_mapping = <<>>
    /\ purged_scaffold = <<>>

\* the variables of intraexonic_cuts_count after line 141
CountStart ==
    /\ g = 0
    /\ total_intraexon_cuts = 0
    /\ log = <<>>

InitClassify ==
    /\ pc = "for_scaffold"
    /\ \/ intron_coords = <<>>
       \/ GenInput(intron_coords)
       \/ SortedInput(intron_coords)
       \/ intron_coords = <<<<"sA", ExampleChain>>>>
       \/ intron_coords = <<<<"sA", ExampleEnclosed>>>>
       \/ BatchInput(intron_coords)
    /\ ClassifyStart
    /\ scaffold_dna = <<>> /\ non_overlap_introns = <<>> /\ PruneStart
    /\ exon_grouped = <<>> /\ cuts_grouped = <<>> /\ CountStart

NextClassify == NextScaffold \/ OverlapStep \/ NonOverlapStep \/ EndScan \/ ReturnOverlaps

SpecClassify == InitClassify /\ [][NextClassify]_vars

(* Properties of find_overlaps *)

ClassifyStopped == pc \in {"returned", "ZeroDivisionError", "AssertionError"}

\* the scan of scaffold sc has completed i iterations and is not inside one
BetweenIterations == sc > 0 /\ pc \in {"scan", "for_scaffold", "returned"}

\* the scan of scaffold sc has finished
ScanFinished == sc > 0 /\ pc \in {"for_scaffold", "returned"}

HasRepeat(p) == \E a \in 1..Len(p) : \E b \in (a+1)..Len(p) : p[a] = p[b]

\* C1: after every iteration of the scan the number of intervals taken so far is
\* len(non_overlap) + 2*len(overlap) - correction, a finished scan has taken the
\* whole list, and the assertion of line 77 never fails, for sorted and unsorted
\* lists, with and without repeated values. An iteration that the division of
\* line 69 ends has counted its interval before it raises.
C1_CountEquation ==
    /\ pc # "AssertionError"
    /\ BetweenIterations =>
          i = Len(positions_non_overlap) + 2 * Len(positions_overlap) - correction
    /\ ScanFinished => i = Len(Positions)
    /\ pc = "ZeroDivisionError" =>
          i + 1 = Len(positions_non_overlap) + 2 * Len(positions_overlap) - correction

\* a finished scan of an unsorted list with a repeated interval, two overlaps
\* and a correction
C1_Witness ==
    /\ pc = "returned"
    /\ sc = 1
    /\ ~SortedByStart(Positions)
    /\ HasRepeat(Positions)
    /\ Len(positions_overlap) >= 2
    /\ correction >= 1

\* a single overlap chain: k >= 2 distinct well-formed 1-based intervals, sorted
\* ascending by start, each starting no later than its predecessor ends
IsChain(p) ==
    /\ Len(p) >= 2
    /\ \A k \in 1..Len(p) : 1 <= p[k][1] /\ p[k][1] <= p[k][2]
    /\ SortedByStart(p)
    /\ ~HasRepeat(p)
    /\ \A k \in 1..(Len(p)-1) : p[k+1][1] <= p[k][2]

\* the raw pairs of neighbours, in order
ChainPairs(p) ==
    [k \in 1..(Len(p)-1) |-> <<p[k][1], p[k][2], p[k+1][1], p[k+1][2]>>]

ChainResult(p) ==
    /\ pc = "returned"
    /\ overlaps_dict["sA"] = <<<<>>, ChainPairs(p)>>
    /\ correction = Len(p) - 2

\* C2: the scan of a single overlap chain of k intervals returns the k-1 raw
\* pairs of neighbours in order, an empty non_overlap and correction = k-2.
C2_ChainClaim ==
    (Len(intron_coords) = 1 /\ IsChain(intron_coords[1][2]) /\ ClassifyStopped)
        => ChainResult(intron_coords[1][2])

\* the same for the chains in which no interval but the last is a single position:
\* this is what the code does, for chains of every length up to MaxChain
ChainOfSpans(p) == IsChain(p) /\ \A k \in 1..(Len(p)-1) : p[k][1] < p[k][2]

ChainOfSpansResult ==
    (Len(intron_coords) = 1 /\ ChainOfSpans(intron_coords[1][2]) /\ ClassifyStopped)
        => ChainResult(intron_coords[1][2])

\* the three-way chain ends with two pairs and correction = 1
ExampleChainResult ==
    (pc = "returned" /\ intron_coords = <<<<"sA", ExampleChain>>>>)
        => /\ overlaps_dict["sA"] = <<<<>>, <<<<1, 10, 5, 15>>, <<5, 15, 12, 20>>>>>>
           /\ correction = 1

ChainOfSpansReached ==
    /\ pc = "returned"
    /\ Len(intron_coords) = 1
    /\ ChainOfSpans(intron_coords[1][2])
    /\ Len(intron_coords[1][2]) = MaxChain

HasMalformed(p) == \E k \in 1..Len(p) : p[k][1] > p[k][2]

\* C10: a call whose input holds an interval with start > end ends with the
\* error InvalidInterval and returns no partition (the calls that the division
\* of line 69 ends are left aside here).
C10_InvalidIntervalClaim ==
    ((\E s \in 1..Len(intron_coords) : HasMalformed(intron_coords[s][2]))
        /\ ClassifyStopped /\ pc # "ZeroDivisionError")
        => pc = "InvalidInterval"

\* an exception has left the call while scaffold sc was being scanned
ClassifyRaised == pc \in {"ZeroDivisionError", "AssertionError"}

\* what the caller receives: the dictionary of line 80, and nothing from a
\* call that an exception has left
BatchResult == IF pc = "returned" THEN overlaps_dict ELSE <<>>

\* C12: when the scan of one scaffold fails, the result of the batch still holds
\* the partition of every other scaffold of the input, whether those come
\* before or after the failing one.
C12_IsolationClaim ==
    ClassifyRaised =>
        \A k \in 1..Len(intron_coords) :
            k # sc => intron_coords[k][1] \in DOMAIN BatchResult

\* interval k of the list is a single position and interval k+1 starts on or
\* before it
OverlapsPoint(p, k) == p[k][1] = p[k][2] /\ p[k+1][1] <= p[k][2]

\* every start is a 1-based coordinate, so that no interval meets the initial
\* last_end = 0 of line 55
StartsFromOne(p) == \A k \in 1..Len(p) : p[k][1] >= 1

\* C13: a call on 1-based lists, one of which holds an interval that overlaps a
\* single-position predecessor (last_end = last_start), ends without an
\* arithmetic error: it returns, and the overlap list of that scaffold holds
\* the pair.
C13_GuardedDivisionClaim ==
    \A s \in 1..Len(intron_coords) :
        LET p == intron_coords[s][2]
        IN  \A k \in 1..(Len(p) - 1) :
                (/\ ClassifyStopped
                 /\ \A t \in 1..Len(intron_coords) : StartsFromOne(intron_coords[t][2])
                 /\ OverlapsPoint(p, k)) =>
                    /\ pc = "returned"
                    /\ InList(<<p[k][1], p[k][2], p[k+1][1], p[k+1][2]>>,
                              overlaps_dict[intron_coords[s][1]][2])

\* positional overlap of two intervals
Overlaps(a, b) == a[1] <= b[2] /\ a[2] >= b[1]

\* the input of a finished call: one list, sorted ascending by start, 1-based
SortedFromOne ==
    /\ pc = "returned"
    /\ Len(intron_coords) = 1
    /\ SortedByStart(intron_coords[1][2])
    /\ StartsFromOne(intron_coords[1][2])

NonOverlapOf(s) == overlaps_dict[intron_coords[s][1]][1]

\* C14 (as stated): on a sorted 1-based list of intervals with start <= end, an
\* interval left in non_overlap overlaps no other interval of the input, an
\* earlier one that encloses it included.
C14_NoOverlapWithAnyClaim ==
    (SortedFromOne /\ ~HasMalformed(intron_coords[1][2])) =>
        LET p == intron_coords[1][2]
            no == NonOverlapOf(1)
        IN  \A a \in 1..Len(no) : \A k \in 1..Len(p) :
                p[k] # no[a] => ~Overlaps(no[a], p[k])

\* C14 (amended): on a sorted 1-based list, whether or not every interval has
\* start <= end, an interval left in non_overlap overlaps neither the interval
\* just before it in the input nor any interval after it, and the intervals of
\* non_overlap are pairwise disjoint and ascending. An earlier interval that is
\* not its immediate predecessor may reach over it: (1,100),(5,10),(20,30)
\* leaves (20,30) in non_overlap.
C14_NonOverlapDisjoint ==
    /\ SortedFromOne =>
          LET p == intron_coords[1][2]
              no == NonOverlapOf(1)
          IN  /\ \A a \in 1..Len(no) : \E j \in 1..Len(p) :
                    /\ p[j] = no[a]
                    /\ j > 1 => ~Overlaps(p[j], p[j-1])
                    /\ \A k \in (j+1)..Len(p) : ~Overlaps(p[j], p[k])
              /\ \A a \in 1..Len(no) : \A b \in (a+1)..Len(no) :
                    /\ ~Overlaps(no[a], no[b])
                    /\ no[a][2] < no[b][1]
    /\ (pc = "returned" /\ intron_coords = <<<<"sA", ExampleEnclosed>>>>) =>
          overlaps_dict["sA"] = <<<<<<20, 30>>>>, <<<<1, 100, 5, 10>>>>>>

\* two intervals left in non_overlap, each inside an earlier interval that is
\* not its immediate predecessor
C14_Witness ==
    /\ SortedFromOne
    /\ ~HasMalformed(intron_coords[1][2])
    /\ Len(NonOverlapOf(1)) >= 2
    /\ \A a \in 1..Len(NonOverlapOf(1)) :
          \E k \in 1..Len(intron_coords[1][2]) :
              /\ intron_coords[1][2][k] # NonOverlapOf(1)[a]
              /\ Overlaps(NonOverlapOf(1)[a], intron_coords[1][2][k])

----------------------------------------------------------------------------
(* prune_non_overlap_introns *)

Min(a, b) == IF a < b THEN a ELSE b
Max(a, b) == IF a > b THEN a ELSE b

\* a slice bound as Python resolves it on a string of length len:
\* a negative bound counts from the end, and every bound is clamped to 0..len
SliceBound(x, len) == IF x < 0 THEN Max(x + len, 0) ELSE Min(x, len)

\* a slice that takes its upper bound in
PySliceInclusive(s, lo, hi) ==
    LET a == SliceBound(lo, Len(s))
        b == SliceBound(hi + 1, Len(s))
    IN  [k \in 1..Max(b - a, 0) |-> s[a + k]]

\* s[lo:hi] with 0-based bounds; empty when the bounds cross
PySlice(s, lo, hi) ==
    LET a == SliceBound(lo, Len(s))
        b == SliceBound(hi, Len(s))
    IN  [k \in 1..Max(b - a, 0) |-> s[a + k]]

\* s[lo:]
PySliceFrom(s, lo) ==
    LET a == SliceBound(lo, Len(s))
    IN  [k \in 1..(Len(s) - a) |-> s[a + k]]

\* the literal of line 96
SkipThreshold == 80

\* line 96
IsLongIntron(intron_begin, intron_end) == intron_end - intron_begin > SkipThreshold

\* an exon that runs one base into its intron
ExonEndAtIntron(intron_begin) == intron_begin

\* line 99
ExonEnd(intron_begin) == intron_begin - 1

\* an exon that restarts on the last base of the intron
NextExonBeginOnIntron(intron_end) == intron_end - 1

\* line 107
NextExonBegin(intron_end) == intron_end

\* a remainder that loses its first base
RemainderAfterBegin(dna, begin) == PySliceFrom(dna, begin + 1)

\* line 111
Remainder(dna, begin) == PySliceFrom(dna, begin)

\* an anchor that gives the original position 1-based
AnchorOneBased(begin, pruned) == <<begin + 1, Len(pruned)>>

\* lines 104 and 110: where the next exon begins, in the scaffold and in the result
Anchor(begin, pruned) == <<begin, Len(pruned)>>

\* lines 94-97: an iteration that skips its intron
SkipIntron ==
    /\ pc = "prune_loop"
    /\ taken < Len(non_overlap_introns)
    /\ IsLongIntron(non_overlap_introns[taken+1][1], non_overlap_introns[taken+1][2])
    /\ taken' = taken + 1
    /\ UNCHANGED <<pc, scaffold_dna, non_overlap_introns, exon_begin,
                   exon_coord_mapping, purged_scaffold, cvars, kvars>>

\* lines 94-107: an iteration that cuts its intron out
ExciseIntron ==
    /\ pc = "prune_loop"
    /\ taken < Len(non_overlap_introns)
    /\ LET intron_begin == non_overlap_introns[taken+1][1]
           intron_end   == non_overlap_introns[taken+1][2]
           exon_seq     == PySlice(scaffold_dna, exon_begin, ExonEnd(intron_begin))
       IN  /\ ~IsLongIntron(intron_begin, intron_end)
           /\ exon_coord_mapping' =
                 Append(exon_coord_mapping, Anchor(exon_begin, purged_scaffold))
           /\ purged_scaffold' = purged_scaffold \o exon_seq
           /\ exon_begin' = NextExonBegin(intron_end)
    /\ taken' = taken + 1
    /\ UNCHANGED <<pc, scaffold_dna, non_overlap_introns, cvars, kvars>>

\* lines 110-114
ReturnPruned ==
    /\ pc = "prune_loop"
    /\ taken = Len(non_overlap_introns)
    /\ exon_coord_mapping' =
          Append(exon_coord_mapping, Anchor(exon_begin, purged_scaffold))
    /\ purged_scaffold' = purged_scaffold \o Remainder(scaffold_dna, exon_begin)
    /\ pc' = "pruned"
    /\ UNCHANGED <<scaffold_dna, non_overlap_introns, taken, exon_begin, cvars, kvars>>

(* Inputs of the pruner *)

Letters == <<"A", "B", "C", "D", "E", "F", "G", "H",
             "I", "J", "K", "L", "M", "N", "O", "P">>
Nucleotides == <<"A", "C">>

\* the string of length len that repeats the alphabet
Cyclic(alphabet, len) == [k \in 1..len |-> alphabet[((k - 1) % Len(alphabet)) + 1]]

LongLen == SkipThreshold + MaxLen

WellFormed(coords) == {iv \in coords \X coords : iv[1] <= iv[2]}

\* introns around the skip threshold, at the head and at the tail of a long scaffold
LongIntrons ==
    {<<s, s + SkipThreshold + d>> : s \in 1..2, d \in (-1)..1}
    \cup WellFormed((LongLen - 1)..(LongLen + 1))
    \cup {<<1, 1>>}

\* short scaffolds with every list of well-formed introns on 0..len+1
ShortInput(dna, introns) ==
    \E len \in 0..MaxLen : \E alphabet \in {Letters, Nucleotides} :
        \E k \in 0..MaxIntrons : \E l \in [1..k -> WellFormed(0..(len + 1))] :
            dna = Cyclic(alphabet, len) /\ introns = l

\* the 16-letter scaffold with at most one intron on 0..17
LettersInput(dna, introns) ==
    \E k \in 0..1 : \E l \in [1..k -> WellFormed(0..(Len(Letters) + 1))] :
        dna = Letters /\ introns = l

\* a scaffold long enough for introns of more than SkipThreshold bases
LongInput(dna, introns) ==
    \E k \in 0..MaxIntrons : \E l \in [1..k -> LongIntrons] :
        dna = Cyclic(Letters, LongLen) /\ introns = l

InitPrune ==
    /\ pc = "prune_loop"
    /\ \/ ShortInput(scaffold_dna, non_overlap_introns)
       \/ LettersInput(scaffold_dna, non_overlap_introns)
       \/ LongInput(scaffold_dna, non_overlap_introns)
    /\ PruneStart
    /\ intron_coords = <<>> /\ ClassifyStart
    /\ exon_grouped = <<>> /\ cuts_grouped = <<>> /\ CountStart

NextPrune == SkipIntron \/ ExciseIntron \/ ReturnPruned

SpecPrune == InitPrune /\ [][NextPrune]_vars

(* Properties of prune_non_overlap_introns *)

\* 1-based inclusive and inside the scaffold
InRange(iv, dna) == 1 <= iv[1] /\ iv[1] <= iv[2] /\ iv[2] <= Len(dna)

\* in range, ascending and pairwise disjoint
ValidIntrons(l, dna) ==
    /\ \A k \in 1..Len(l) : InRange(l[k], dna)
    /\ \A k \in 1..(Len(l)-1) : l[k][2] < l[k+1][1]

IntronLength(iv) == iv[2] - iv[1] + 1

\* C3: with no introns the pruner returns the scaffold as it is and the single
\* anchor (0,0), for every scaffold, the empty one included.
C3_NoIntrons ==
    (pc = "pruned" /\ non_overlap_introns = <<>>)
        => /\ purged_scaffold = scaffold_dna
           /\ exon_coord_mapping = <<<<0, 0>>>>

C3_Witness ==
    /\ pc = "pruned"
    /\ non_overlap_introns = <<>>
    /\ scaffold_dna = Letters
    /\ purged_scaffold = Letters

\* C4: one in-range intron (s,e) of at most SkipThreshold bases is cut out exactly:
\* the result is the bases before position s followed by the bases after position
\* e, with the anchors (0,0) and (e, s-1); on ABCDEFGHIJKLMNOP the intron (5,10)
\* leaves ABCDKLMNOP and pruned position 4 is original position 10.
C4_SingleIntron ==
    (pc = "pruned" /\ Len(non_overlap_introns) = 1)
        => LET s == non_overlap_introns[1][1]
               e == non_overlap_introns[1][2]
           IN  /\ (InRange(<<s, e>>, scaffold_dna) /\ IntronLength(<<s, e>>) <= SkipThreshold)
                     => /\ purged_scaffold =
                              SubSeq(scaffold_dna, 1, s - 1)
                                  \o SubSeq(scaffold_dna, e + 1, Len(scaffold_dna))
                        /\ exon_coord_mapping = <<<<0, 0>>, <<e, s - 1>>>>
               /\ (scaffold_dna = Letters /\ s = 5 /\ e = 10)
                     => /\ purged_scaffold =
                              <<"A", "B", "C", "D", "K", "L", "M", "N", "O", "P">>
                        /\ exon_coord_mapping[2] = <<10, 4>>
                        /\ purged_scaffold[4 + 1] = scaffold_dna[10 + 1]

C4_Witness ==
    /\ pc = "pruned"
    /\ scaffold_dna = Letters
    /\ non_overlap_introns = <<<<5, 10>>>>
    /\ Len(purged_scaffold) = 10

\* the introns the claimed rule cuts out: at most SkipThreshold bases long
ShortEnough(l) == {k \in 1..Len(l) : IntronLength(l[k]) <= SkipThreshold}

\* dna without the bases of the introns l[k], k in cut
WithoutIntrons(dna, l, cut) ==
    LET Kept[p \in 0..Len(dna)] ==
            IF p = 0 THEN <<>>
            ELSE IF \E k \in cut : l[k][1] <= p /\ p <= l[k][2]
                 THEN Kept[p-1]
                 ELSE Append(Kept[p-1], dna[p])
    IN  Kept[Len(dna)]

\* C5: an intron of more than 80 bases (end - start + 1 > 80) stays in place and
\* gets no anchor, an intron of at most 80 bases is cut out.
C5_LengthThresholdClaim ==
    (pc = "pruned" /\ ValidIntrons(non_overlap_introns, scaffold_dna))
        => /\ purged_scaffold =
                 WithoutIntrons(scaffold_dna, non_overlap_introns,
                                ShortEnough(non_overlap_introns))
           /\ Len(exon_coord_mapping) = 1 + Cardinality(ShortEnough(non_overlap_introns))

\* C6: the anchors of the returned map increase strictly in both components.
C6_StrictlyIncreasingClaim ==
    (pc = "pruned" /\ ValidIntrons(non_overlap_introns, scaffold_dna))
        => \A k \in 1..(Len(exon_coord_mapping)-1) :
              /\ exon_coord_mapping[k][1] < exon_coord_mapping[k+1][1]
              /\ exon_coord_mapping[k][2] < exon_coord_mapping[k+1][2]

\* what the code does: strict in the original position, and in the pruned
\* position no more than non-decreasing
AnchorsMonotone ==
    (pc = "pruned" /\ ValidIntrons(non_overlap_introns, scaffold_dna))
        => \A k \in 1..(Len(exon_coord_mapping)-1) :
              /\ exon_coord_mapping[k][1] < exon_coord_mapping[k+1][1]
              /\ exon_coord_mapping[k][2] <= exon_coord_mapping[k+1][2]

\* anchor k begins the exon span that holds pruned position p (0-based)
SpanHolds(m, k, p) == m[k][2] <= p /\ (k < Len(m) => p < m[k+1][2])

\* C7: every position p of the pruned scaffold lies in the exon span of an anchor
\* (o, q), and the scaffold has at o + (p - q) the base the pruned scaffold has at p.
C7_RoundTrip ==
    (pc = "pruned" /\ ValidIntrons(non_overlap_introns, scaffold_dna))
        => \A p \in 0..(Len(purged_scaffold)-1) :
              /\ \E k \in 1..Len(exon_coord_mapping) : SpanHolds(exon_coord_mapping, k, p)
              /\ \A k \in 1..Len(exon_coord_mapping) :
                    SpanHolds(exon_coord_mapping, k, p)
                        => LET at == exon_coord_mapping[k][1] + (p - exon_coord_mapping[k][2])
                           IN  /\ at \in 0..(Len(scaffold_dna)-1)
                               /\ scaffold_dna[at + 1] = purged_scaffold[p + 1]

\* two introns cut out of a scaffold of distinct letters, bases left on both sides
C7_Witness ==
    /\ pc = "pruned"
    /\ ValidIntrons(non_overlap_introns, scaffold_dna)
    /\ scaffold_dna = Cyclic(Letters, MaxLen)
    /\ Len(exon_coord_mapping) = 3
    /\ exon_coord_mapping[2][2] > 0
    /\ Len(purged_scaffold) > exon_coord_mapping[3][2]

\* the introns the code cuts out
Excised(l) == {k \in 1..Len(l) : ~IsLongIntron(l[k][1], l[k][2])}

RECURSIVE TotalLength(_, _)
TotalLength(l, S) ==
    IF S = {} THEN 0
    ELSE LET k == CHOOSE x \in S : TRUE
         IN  IntronLength(l[k]) + TotalLength(l, S \ {k})

\* C8: the pruned scaffold is as long as the scaffold less the lengths
\* end - start + 1 of the introns that were cut out.
C8_PrunedLength ==
    (pc = "pruned" /\ ValidIntrons(non_overlap_introns, scaffold_dna))
        => Len(purged_scaffold) =
              Len(scaffold_dna) - TotalLength(non_overlap_introns, Excised(non_overlap_introns))

\* a skipped intron and a cut one in the same call
C8_Witness ==
    /\ pc = "pruned"
    /\ ValidIntrons(non_overlap_introns, scaffold_dna)
    /\ Excised(non_overlap_introns) # {}
    /\ Excised(non_overlap_introns) # 1..Len(non_overlap_introns)
    /\ Len(purged_scaffold) < Len(scaffold_dna)

\* an intron that starts before position 1 or ends after the scaffold
OutOfRange(l, dna) == \E k \in 1..Len(l) : l[k][1] < 1 \/ l[k][2] > Len(dna)

\* C11: a call given an intron outside the scaffold (start < 1 or end > length)
\* ends with the error OutOfRangeInterval and never returns a pruned scaffold
\* and a coordinate mapping computed from that intron.
C11_OutOfRangeClaim ==
    OutOfRange(non_overlap_introns, scaffold_dna) => pc # "pruned"

----------------------------------------------------------------------------
(* intraexonic_cuts_count *)

RECURSIVE SeqSum(_)
SeqSum(s) == IF s = <<>> THEN 0 ELSE s[1] + SeqSum(Tail(s))

\* intragen_tools.intraexonic_cuts_in_scaffold: one flag per cut, set when the cut
\* intersects some exon of the scaffold, and the total length of the exons
IntraexonicCutsInScaffold(exons, cuts) ==
    <<[k \in 1..Len(cuts) |->
          IF \E e \in 1..Len(exons) :
                 cuts[k][1] <= exons[e][2] /\ cuts[k][2] >= exons[e][1]
          THEN 1 ELSE 0],
      SeqSum([e \in 1..Len(exons) |-> exons[e][2] - exons[e][1] + 1])>>

\* line 144: get_group raises KeyError for a key that has no group
HasGroup(grouped, scaffold) == scaffold \in DOMAIN grouped

\* line 153: the division raises when the exon length is 0
RateRaises(exon_length) == exon_length = 0

\* a KeyError swallowed without a record
WarningDropped(lg, scaffold) == lg

\* line 146
WarnMissing(lg, scaffold) == Append(lg, <<"warning", scaffold>>)

\* line 155
TotalAfterGroup(total, exon_cuts_no) == total + exon_cuts_no

\* lines 142-147: a group whose scaffold has no exons
MissingGroup ==
    /\ pc = "count_loop"
    /\ g < Len(cuts_grouped)
    /\ LET scaffold == cuts_grouped[g+1][1]
       IN  /\ ~HasGroup(exon_grouped, scaffold)
           /\ log' = WarnMissing(log, scaffold)
    /\ g' = g + 1
    /\ UNCHANGED <<pc, exon_grouped, cuts_grouped, total_intraexon_cuts, cvars, pvars>>

\* lines 142-144, 149-155: a group whose scaffold has exons
CountGroup ==
    /\ pc = "count_loop"
    /\ g < Len(cuts_grouped)
    /\ LET scaffold      == cuts_grouped[g+1][1]
           cut_positions == cuts_grouped[g+1][2]
       IN  /\ HasGroup(exon_grouped, scaffold)
           /\ LET res          == IntraexonicCutsInScaffold(exon_grouped[scaffold],
                                                            cut_positions)
                  exon_cuts_no == SeqSum(res[1])
                  exon_length  == res[2]
              IN  IF RateRaises(exon_length)
                  THEN /\ pc' = "ZeroDivisionError"
                       /\ UNCHANGED <<g, total_intraexon_cuts, log>>
                  ELSE /\ log' = Append(log, <<"info", scaffold, exon_cuts_no>>)
                       /\ total_intraexon_cuts' =
                             TotalAfterGroup(total_intraexon_cuts, exon_cuts_no)
                       /\ g' = g + 1
                       /\ pc' = pc
    /\ UNCHANGED <<exon_grouped, cuts_grouped, cvars, pvars>>

\* line 157
ReturnCount ==
    /\ pc = "count_loop"
    /\ g = Len(cuts_grouped)
    /\ pc' = "counted"
    /\ UNCHANGED <<cvars, pvars, kvars>>

(* Inputs of the counter: a group exists only for a scaffold that has rows, and *)
(* the groups come in the order of their keys                                   *)

CountIntervals == WellFormed(1..MaxPos)

\* the groups of "sA" and "sB" out of their rows; no rows, no group
Grouped(rowsA, rowsB) ==
    [s \in (IF rowsA = <<>> THEN {} ELSE {"sA"}) \cup
           (IF rowsB = <<>> THEN {} ELSE {"sB"}) |->
        IF s = "sA" THEN rowsA ELSE rowsB]

\* a GroupBy as the sequence its iteration yields
GroupItems(rowsA, rowsB) ==
    (IF rowsA = <<>> THEN <<>> ELSE <<<<"sA", rowsA>>>>) \o
    (IF rowsB = <<>> THEN <<>> ELSE <<<<"sB", rowsB>>>>)

InitCount ==
    /\ pc = "count_loop"
    /\ \E exonsA \in SeqsUpTo(CountIntervals, MaxGroup) :
       \E cutsA \in SeqsUpTo(CountIntervals, MaxGroup) :
       \E exonsB \in SeqsUpTo(CountIntervals, 1) :
       \E cutsB \in SeqsUpTo(CountIntervals, 1) :
          /\ exon_grouped = Grouped(exonsA, exonsB)
          /\ cuts_grouped = GroupItems(cutsA, cutsB)
    /\ CountStart
    /\ intron_coords = <<>> /\ ClassifyStart
    /\ scaffold_dna = <<>> /\ non_overlap_introns = <<>> /\ PruneStart

NextCount == MissingGroup \/ CountGroup \/ ReturnCount

SpecCount == InitCount /\ [][NextCount]_vars

(* Properties of intraexonic_cuts_count *)

CutScaffolds == {cuts_grouped[k][1] : k \in 1..Len(cuts_grouped)}

CutsOf(s) == (CHOOSE k \in 1..Len(cuts_grouped) : cuts_grouped[k][1] = s)

\* the cuts of scaffold s that intersect an exon of s, over all pairs
CutsInsideExons(s) ==
    LET cuts  == cuts_grouped[CutsOf(s)][2]
        exons == exon_grouped[s]
    IN  Cardinality({k \in 1..Len(cuts) :
            \E e \in 1..Len(exons) :
                cuts[k][1] <= exons[e][2] /\ cuts[k][2] >= exons[e][1]})

RECURSIVE SumInside(_)
SumInside(S) ==
    IF S = {} THEN 0
    ELSE LET s == CHOOSE x \in S : TRUE
         IN  CutsInsideExons(s) + SumInside(S \ {s})

\* the scaffolds of the warnings recorded, in order
Warned == SelectSeq(log, LAMBDA r : r[1] = "warning")

\* the cut scaffolds without exons, in the order of the groups
Unmatched ==
    SelectSeq([k \in 1..Len(cuts_grouped) |-> cuts_grouped[k][1]],
              LAMBDA s : s \notin DOMAIN exon_grouped)

\* C9: a cut scaffold without an exon group raises nothing: it adds nothing to the
\* total, one warning is recorded for it, the groups after it are still taken, and
\* the total returned is the sum of the counts of the scaffolds that have exons.
C9_MissingGroupSkipped ==
    /\ pc \in {"count_loop", "counted"}
    /\ pc = "counted" =>
          /\ g = Len(cuts_grouped)
          /\ total_intraexon_cuts = SumInside(CutScaffolds \cap DOMAIN exon_grouped)
          /\ [k \in 1..Len(Warned) |-> Warned[k][2]] = Unmatched
          /\ Len(log) = Len(cuts_grouped)

\* the first group has no exons, the second has and counts a cut
C9_Witness ==
    /\ pc = "counted"
    /\ Len(cuts_grouped) = 2
    /\ log[1] = <<"warning", "sA">>
    /\ log[2][1] = "info"
    /\ total_intraexon_cuts >= 1

====
